---- MODULE Spec2Model ----
(***************************************************************************)
(* Model of src/player.py: the terminal video player's session (main),     *)
(* its frame-supply setups (live, in-memory single pass, -write, -c) and   *)
(* the two playback loops draw_images and draw_images_live; parse_args     *)
(* and main's argument checks; the glyph mapping, xterm_256_index and the  *)
(* colour-pair cache of the transcoders.                                   *)
(*                                                                         *)
(* Time is in integer milliseconds elapsed since start_time.  Video_FPS    *)
(* is an integer number of frames per second (the rate the decoder reports *)
(* is srcFPS + srcFPSFraction / 100, whole wherever it is kept as it is),  *)
(* so the code's                                                           *)
(*     t_ideal = frame_idx / Video_FPS        (seconds)                    *)
(* is compared exactly by cross-multiplication:                            *)
(*     now <  t_ideal         <=>  now_ms * Video_FPS <  frame_idx * 1000  *)
(*     now >  t_ideal + 0.05  <=>  now_ms * Video_FPS >                    *)
(*                                  frame_idx * 1000 + 50 * Video_FPS      *)
(* A frame is identified by its position in the source video; a           *)
(* precomputed frame list is the sequence of source positions it holds.    *)
(***************************************************************************)
EXTENDS Integers, Sequences, FiniteSets, TLC

VARIABLES
    \* command-line flags (module globals set by parse_args)
    Precompute, UseCachedFrames, WriteFrames, DisableDynamicSkip, User_FPS,
    \* environment: the video behind the decoder, the resized/ cache, the clock
    srcFPS, srcFrames, decodeFaulty, disk, clockMode, clock,
    \* globals and locals of main
    Video_FPS, total_frames, ascii_frames, cap, player, strayStop,
    \* the precompute loaders: position in the video of the frame last read
    load_pos,
    \* locals of draw_images / draw_images_live
    skip_factor, frame_idx, now, sleep_arg,
    \* control
    pc, exit_code,
    \* history of what the loop did
    rendered, sleeps, skips, iters,
    \* parse_args: the arguments not yet parsed, and the globals it sets
    rest, YT, local_file, youtube_link, Subtitles, DebugFPS, ColorMode,
    \* what main has printed on standard output: nothing, the help, an error
    printed,
    \* the transcoder's inner loop: the pixel, the cell made of it, the
    \* locals color_idx and char_idx, and the colour-pair cache
    pixel, cell, color_idx, char_idx, COLOR_PAIR_CACHE, NEXT_COLOR_PAIR_ID,
    \* history: the arguments and the result of the last get_color_pair call
    pair_call,
    \* the terminal (stdscr, the mode start_curses / stop_curses leave it in,
    \* and its getmaxyx()) and the size of the video's images
    stdscr, curses_mode, term_size, src_size,
    \* frame supply: the decoder local to a setup function, the number of
    \* decoder operations so far, the size of the frames in ascii_frames and
    \* in resized/, resized/metadata.txt, the warnings printed
    loader_cap, decoder_ops, frame_size, disk_size, metadata, warnings,
    \* history: the size of the frame last drawn, whether this iteration slept
    drawn_size, iter_slept,
    \* whether resized/ and its metadata.txt exist; history of the session's
    \* decoder: the cap.release() calls on it, and whether `cap` was used
    \* before it was bound; start_time of the playback loop
    cache_there, cap_releases, unbound_release, start_time,
    \* the hundredths of the rate the decoder reports: CAP_PROP_FPS is
    \* srcFPS + srcFPSFraction / 100
    srcFPSFraction

flags == <<Precompute, UseCachedFrames, WriteFrames, DisableDynamicSkip, User_FPS>>
env   == <<srcFPS, srcFrames, decodeFaulty, clockMode>>
media == <<Video_FPS, total_frames, ascii_frames>>
hist  == <<rendered, sleeps, skips, iters>>
cli   == <<rest, YT, local_file, youtube_link, Subtitles, DebugFPS, ColorMode,
           printed>>
gfx   == <<pixel, cell, color_idx, char_idx, COLOR_PAIR_CACHE,
           NEXT_COLOR_PAIR_ID, pair_call>>
screen == <<stdscr, curses_mode, term_size, src_size>>
supply == <<loader_cap, decoder_ops, frame_size, disk_size, metadata, warnings>>
shown == <<drawn_size, iter_slept>>
life  == <<cache_there, cap_releases, unbound_release, start_time,
           srcFPSFraction>>
vars  == <<flags, env, disk, clock, media, cap, player, strayStop, load_pos,
           skip_factor, frame_idx, now, sleep_arg, pc, exit_code, hist,
           cli, gfx, screen, supply, shown, life>>

----------------------------------------------------------------------------
\* Bounds of the model.

\* Largest number of source frames of a session with an unconstrained clock.
MaxFrames == 4
\* The clock of an unconstrained session stops drifting past this many
\* milliseconds plus the length of the video.
MaxLag == 300
\* Largest frame rate tried by the skip-factor computation on its own.
MaxRate == 32

\* skip_threshold = 0.05 seconds, in milliseconds.
SkipThresholdMs == 50

\* User_FPS is None (<<>>) or a number (<<v>>).
None == <<>>

Max(a, b) == IF a >= b THEN a ELSE b
Min(a, b) == IF a <= b THEN a ELSE b
CeilDiv(a, b) == (a + b - 1) \div b

----------------------------------------------------------------------------
\* Pure helpers of the playback loops.

\* Python truthiness of User_FPS: None and 0.0 are false.
Truthy(f) == f # None /\ f[1] # 0

\* Python 3 round(n / d) for n >= 0, d > 0: ties go to the even neighbour.
Round(n, d) ==
    LET q == n \div d
        r == n % d
    IN  IF 2 * r < d THEN q
        ELSE IF 2 * r > d THEN q + 1
        ELSE IF q % 2 = 0 THEN q ELSE q + 1

\* draw_images / draw_images_live, lines 729-731: the rate Video_FPS is
\* divided by for skip_factor.
EffectiveFps(vfps, ufps) ==
    LET e0 == IF Truthy(ufps) THEN ufps[1] ELSE vfps
    IN  IF e0 <= 0 THEN vfps ELSE e0

\* skip_factor with int() alone (truncation) where the code rounds.
SkipFactorTruncating(vfps, ufps) ==
    LET e0 == IF Truthy(ufps) THEN ufps[1] ELSE vfps
        effective_fps == IF e0 <= 0 THEN vfps ELSE e0
    IN  Max(1, vfps \div effective_fps)

\* skip_factor without the max(1, ...) floor.
SkipFactorNoFloor(vfps, ufps) ==
    LET e0 == IF Truthy(ufps) THEN ufps[1] ELSE vfps
        effective_fps == IF e0 <= 0 THEN vfps ELSE e0
    IN  Round(vfps, effective_fps)

\* draw_images / draw_images_live: effective_fps and skip_factor.
SkipFactor(vfps, ufps) ==
    LET e0 == IF Truthy(ufps) THEN ufps[1] ELSE vfps
        effective_fps == IF e0 <= 0 THEN vfps ELSE e0
    IN  Max(1, Round(vfps, effective_fps))

\* The skip test with the threshold forgotten and >= for >.
BehindNoThreshold(t, idx, fps) == t * fps >= idx * 1000

\* The skip test with a threshold of half a second.
BehindHalfSecond(t, idx, fps) == t * fps > idx * 1000 + 500 * fps

\* now > t_ideal + skip_threshold
Behind(t, idx, fps) == t * fps > idx * 1000 + SkipThresholdMs * fps

\* now < t_ideal
Early(t, idx, fps) == t * fps < idx * 1000

\* The first millisecond that is not before t_ideal.
IdealMs(idx, fps) == CeilDiv(idx * 1000, fps)

----------------------------------------------------------------------------
\* Frame-supply setups.

\* What an earlier -write run with decimation stride s left in resized/ for
\* a video of n frames: the frames at positions 0, s, 2s, ...
EarlierRun(n, s) == [k \in 1 .. CeilDiv(n, s) |-> (k - 1) * s]

\* The decimation stride of the two precompute setups (`skip_factor` there).
LoadStride(vfps, ufps) ==
    IF Truthy(ufps) /\ ufps[1] > 0 /\ ufps[1] < vfps
    THEN Max(1, Round(vfps, ufps[1]))
    ELSE 1

\* precompute_ascii_frames_from_disk(frames_amount) over the files of
\* resized/ (a missing resized{i}.png is passed over).
FromDisk(files, frames_amount) ==
    SubSeq(files, 1, Min(frames_amount, Len(files)))

----------------------------------------------------------------------------
\* Sessions: the flags, the video and the clock a run starts with.

Modes == {"live", "memory", "write", "cached"}

\* Requested display rates of the sessions with an unconstrained clock:
\* absent, zero, negative, and positive ones.
FreeUserRates == {None, <<0>>, <<-5>>, <<4>>, <<25>>}
FreeRates == {10, 25}
\* Strides an earlier -write run may have left in resized/.
CacheStrides == {1, 3}

SessionsOf(rates, frameCounts, userRates, noskips, clocks) ==
    { [mode |-> m, noskip |-> ns, ufps |-> u, fps |-> r, frames |-> n,
       faulty |-> f, stride |-> cs, clockMode |-> c] :
        m \in Modes, ns \in noskips, u \in userRates, r \in rates,
        n \in frameCounts, f \in BOOLEAN, cs \in CacheStrides, c \in clocks }

\* Only a live decoder is read during playback, and only -c reads an old cache.
WellFormed(s) ==
    /\ s.faulty => s.mode = "live" /\ s.clockMode = "free"
    /\ s.stride # 1 => s.mode = "cached"

Sessions ==
    { s \in SessionsOf(FreeRates, 0..MaxFrames, FreeUserRates, BOOLEAN, {"free"})
            \cup SessionsOf({30}, {90}, {<<10>>}, BOOLEAN, {"never_behind"})
            \cup SessionsOf({25}, {100}, {<<25>>}, {FALSE}, {"on_schedule"}) :
        WellFormed(s) }

\* process_frame lines 390-392 (and 487-489, 539-541): the rows and columns
\* of a glyph frame for a terminal of size term = <<height, width>>.
TargetSize(term) == <<Max(1, term[1] - 1), Max(1, term[2])>>

\* PIL's Image.resize((w, h)) of an image of any size: <<rows, columns>> of
\* the result.
Resize(size, w, h) == <<h, w>>

\* The image -> glyph-frame size of the three transcoders: one cell for each
\* pixel of the resized image.
FrameSizeFor(term) ==
    LET target == TargetSize(term)
    IN  Resize(src_size, target[2], target[1])

\* A -f that makes an earlier -write run keep every s-th frame of a video
\* of rate fps (none for s = 1).
EarlierUserFPS(fps, s) == IF s = 1 THEN None ELSE <<fps \div s>>

\* No resized/metadata.txt.
NoMetadata ==
    [InputFile |-> None, OriginalFPS |-> 0, UsedUserFPS |-> None,
     ResizedFrames |-> 0]

\* write_cache_metadata (lines 593-607).
CacheMetadata(input_name, vfps, ufps, framesAmount) ==
    [InputFile |-> input_name, OriginalFPS |-> vfps,
     UsedUserFPS |-> IF Truthy(ufps) THEN ufps ELSE None,
     ResizedFrames |-> framesAmount]

\* No cell transcoded yet.
NoCell == [char |-> "", pair |-> 0]

\* No get_color_pair call yet.
NoCall == [fg |-> -1, bg |-> -1, id |-> 0]

\* The module globals of the colour support and the transcoder's locals
\* before the first frame.
FreshColors ==
    /\ pixel = None
    /\ cell = NoCell
    /\ color_idx = -1
    /\ char_idx = -1
    /\ COLOR_PAIR_CACHE = {}
    /\ NEXT_COLOR_PAIR_ID = 1
    /\ pair_call = NoCall

\* The surroundings of the usual session: a 24 x 80 terminal, a 1920 x 1080
\* video in a local file (no -y), and (with -c) a cache that is there, which
\* an earlier run made of the same file (its rate off by nothing) in a
\* terminal of the same size; the video's rate is a whole number.
Usual ==
    [term |-> <<24, 80>>, src |-> <<1080, 1920>>, cacheTerm |-> <<24, 80>>,
     cacheInput |-> <<"movie.mp4">>, cacheRateOff |-> 0, yt |-> FALSE,
     cacheThere |-> TRUE, rateFraction |-> 0]

\* main at the start of its try block, parse_args having left the flags of
\* session s, in the surroundings w.
Start(s, w) ==
        /\ rest = <<>>
        /\ printed = "none"
        /\ YT = w.yt
        /\ local_file = IF w.yt THEN None ELSE <<"movie.mp4">>
        /\ youtube_link = IF w.yt THEN <<"link">> ELSE None
        /\ Subtitles = FALSE
        /\ DebugFPS = FALSE
        /\ ColorMode = FALSE
        /\ FreshColors
        /\ stdscr = IF ~w.yt \/ s.mode = "live" THEN "curses" ELSE "none"
        /\ curses_mode = IF ~w.yt \/ s.mode = "live" THEN "visual" ELSE "off"
        /\ cache_there = w.cacheThere
        /\ cap_releases = 0
        /\ unbound_release = FALSE
        /\ start_time = 0
        /\ srcFPSFraction = w.rateFraction
        /\ term_size = w.term
        /\ src_size = w.src
        /\ loader_cap = "none"
        /\ decoder_ops = 0
        /\ frame_size = <<0, 0>>
        /\ disk_size = IF s.mode = "cached"
                       THEN TargetSize(w.cacheTerm) ELSE <<0, 0>>
        /\ metadata = IF s.mode = "cached"
                      THEN CacheMetadata(w.cacheInput, s.fps + w.cacheRateOff,
                                         EarlierUserFPS(s.fps, s.stride),
                                         CeilDiv(s.frames, s.stride))
                      ELSE NoMetadata
        /\ warnings = {}
        /\ drawn_size = <<0, 0>>
        /\ iter_slept = FALSE
        /\ Precompute = (s.mode # "live")
        /\ UseCachedFrames = (s.mode = "cached")
        /\ WriteFrames = (s.mode = "write")
        /\ DisableDynamicSkip = s.noskip
        /\ User_FPS = s.ufps
        /\ srcFPS = s.fps
        /\ srcFrames = s.frames
        /\ decodeFaulty = s.faulty
        /\ disk = IF s.mode = "cached"
                  THEN EarlierRun(s.frames, s.stride) ELSE <<>>
        /\ clockMode = s.clockMode
        /\ clock = 0
        /\ Video_FPS = 0
        /\ total_frames = 0
        /\ ascii_frames = <<>>
        /\ cap = "unbound"
        /\ player = "none"
        /\ strayStop = FALSE
        /\ load_pos = 0
        /\ skip_factor = 0
        /\ frame_idx = 0
        /\ now = 0
        /\ sleep_arg = 0
        /\ pc = "setup"
        /\ exit_code = -1
        /\ rendered = <<>>
        /\ sleeps = 0
        /\ skips = 0
        /\ iters = 0

Init == \E s \in Sessions : Start(s, Usual)

----------------------------------------------------------------------------
\* main: the setup phase of each frame-supply mode (all inside the try block).

\* `local_file if local_file else youtube_link` (lines 601, 673).
InputName == IF local_file # None THEN local_file ELSE youtube_link

\* check_cached_frames, lines 672-694: the warnings it prints for the
\* metadata md of the cache (the rates are whole numbers, so they differ by
\* more than 1e-6 exactly when they differ).
CacheWarnings(md, current_input, ufps) ==
    (IF md.InputFile # current_input THEN {"InputFile"} ELSE {})
    \cup (IF md.UsedUserFPS # None /\ Truthy(ufps)
             /\ ufps[1] # md.UsedUserFPS[1]
          THEN {"UsedUserFPS"} ELSE {})

\* cap.get(cv2.CAP_PROP_FPS), in hundredths of a frame per second.
ReportedRate == srcFPS * 100 + srcFPSFraction

\* int(x) of a rate x >= 0 given in hundredths: the fraction is dropped.
IntOfRate(hundredths) == hundredths \div 100

\* Live mode, line 207: cap = setup_video_capture(...).
SetupVideoCapture ==
    /\ pc = "setup" /\ ~Precompute
    /\ cap' = "open"
    /\ pc' = "metadata"
    /\ decoder_ops' = decoder_ops + 1
    /\ UNCHANGED <<load_pos, flags, env, disk, clock, media, player,
                   strayStop, skip_factor, frame_idx, now, sleep_arg,
                   exit_code, hist, cli, gfx, screen, loader_cap,
                   frame_size, disk_size, metadata, warnings, shown, life>>

\* Live mode, line 208: total_frames = get_video_metadata_from_cap(cap).
\* Video_FPS is the reported rate as it is (a whole number in the live
\* sessions of this model).
GetVideoMetadataFromCap ==
    /\ pc = "metadata"
    /\ Video_FPS' = srcFPS
    /\ total_frames' = srcFrames
    /\ pc' = "get_player"
    /\ decoder_ops' = decoder_ops + 1
    /\ UNCHANGED <<load_pos, flags, env, disk, clock, ascii_frames, cap,
                   player, strayStop, skip_factor, frame_idx, now,
                   sleep_arg, exit_code, hist, cli, gfx, screen, loader_cap,
                   frame_size, disk_size, metadata, warnings, shown, life>>

\* Lines 242 and 226: load_resize_precompute_in_memory and
\* get_video_frames_png open the video (a decoder local to the function),
\* set Video_FPS = int(cap.get(cv2.CAP_PROP_FPS)) and make the first
\* cap.read().
LoadStart ==
    /\ pc = "setup" /\ Precompute /\ ~UseCachedFrames
    /\ Video_FPS' = IntOfRate(ReportedRate)
    /\ load_pos' = 0
    /\ pc' = "read_loop"
    /\ loader_cap' = "open"
    /\ decoder_ops' = decoder_ops + 1
    /\ stdscr' = IF YT THEN "curses" ELSE stdscr
    /\ curses_mode' = IF YT THEN "visual" ELSE curses_mode
    /\ frame_size' = IF WriteFrames THEN frame_size
                     ELSE FrameSizeFor(term_size)
    /\ UNCHANGED <<flags, env, disk, clock, total_frames, ascii_frames, cap,
                   player, strayStop, skip_factor, frame_idx, now,
                   sleep_arg, exit_code, hist, cli, gfx, term_size,
                   src_size, disk_size, metadata, warnings, shown, life>>

\* A pass of the loader that grabs and drops skip_factor frames, not
\* skip_factor - 1.
LoadKeepFrameGrabbingOneMore ==
    /\ pc = "read_loop"
    /\ load_pos < srcFrames
    /\ IF WriteFrames
       THEN disk' = Append(disk, load_pos) /\ UNCHANGED ascii_frames
       ELSE ascii_frames' = Append(ascii_frames, load_pos) /\ UNCHANGED disk
    /\ load_pos' = load_pos + LoadStride(Video_FPS, User_FPS) + 1
    /\ decoder_ops' = decoder_ops + 1
    /\ UNCHANGED <<flags, env, clock, Video_FPS, total_frames, cap, player,
                   strayStop, skip_factor, frame_idx, now, sleep_arg, pc,
                   exit_code, hist, cli, gfx, screen, loader_cap,
                   frame_size, disk_size, metadata, warnings, shown, life>>

\* One pass of `while success:` in either loader: the frame read is kept
\* (transcoded into ascii_frames, or written to disk with -write), then
\* skip_factor - 1 frames are grabbed and dropped and the next one is read.
LoadKeepFrame ==
    /\ pc = "read_loop"
    /\ load_pos < srcFrames
    /\ IF WriteFrames
       THEN disk' = Append(disk, load_pos) /\ UNCHANGED ascii_frames
       ELSE ascii_frames' = Append(ascii_frames, load_pos) /\ UNCHANGED disk
    /\ load_pos' = load_pos + LoadStride(Video_FPS, User_FPS)
    /\ decoder_ops' = decoder_ops + 1
    /\ UNCHANGED <<flags, env, clock, Video_FPS, total_frames, cap, player,
                   strayStop, skip_factor, frame_idx, now, sleep_arg, pc,
                   exit_code, hist, cli, gfx, screen, loader_cap,
                   frame_size, disk_size, metadata, warnings, shown, life>>

\* The end of a loader that forgets cap.release().
LoadFinishKeepsDecoder ==
    /\ pc = "read_loop"
    /\ load_pos >= srcFrames
    /\ IF WriteFrames
       THEN /\ total_frames' = Len(disk)
            /\ ascii_frames' = FromDisk(disk, Len(disk))
       ELSE /\ total_frames' = Len(ascii_frames)
            /\ UNCHANGED ascii_frames
    /\ pc' = "get_player"
    /\ UNCHANGED loader_cap
    /\ IF WriteFrames
       THEN /\ disk_size' = FrameSizeFor(term_size)
            /\ metadata' = CacheMetadata(InputName, Video_FPS, User_FPS,
                                         Len(disk))
            /\ frame_size' = disk_size'
       ELSE UNCHANGED <<disk_size, metadata, frame_size>>
    /\ UNCHANGED <<flags, env, disk, clock, Video_FPS, cap, player,
                   strayStop, load_pos, skip_factor, frame_idx, now,
                   sleep_arg, exit_code, hist, cli, gfx, screen,
                   decoder_ops, warnings, shown, life>>

\* The read failed: cap.release() and the count of kept frames is returned.
\* With -write, lines 235-239 follow: the frames are resized, the metadata is
\* written, and ascii_frames is precomputed from resized/.
LoadFinish ==
    /\ pc = "read_loop"
    /\ load_pos >= srcFrames
    /\ IF WriteFrames
       THEN /\ total_frames' = Len(disk)
            /\ ascii_frames' = FromDisk(disk, Len(disk))
       ELSE /\ total_frames' = Len(ascii_frames)
            /\ UNCHANGED ascii_frames
    /\ pc' = "get_player"
    /\ loader_cap' = "released"
    /\ IF WriteFrames
       THEN /\ disk_size' = FrameSizeFor(term_size)
            /\ metadata' = CacheMetadata(InputName, Video_FPS, User_FPS,
                                         Len(disk))
            /\ frame_size' = disk_size'
       ELSE UNCHANGED <<disk_size, metadata, frame_size>>
    /\ UNCHANGED <<flags, env, disk, clock, Video_FPS, cap, player,
                   strayStop, load_pos, skip_factor, frame_idx, now,
                   sleep_arg, exit_code, hist, cli, gfx, screen,
                   decoder_ops, warnings, shown, life>>

\* Lines 251-259 (-c): check_cached_frames (resized/ and its metadata are
\* there; a mismatch only warns), get_video_metadata,
\* precompute_ascii_frames_from_disk.
UseCachedFramesSetup ==
    /\ pc = "setup" /\ Precompute /\ UseCachedFrames
    /\ LET found == CacheWarnings(metadata, InputName, User_FPS)
           \* stdscr.addstr on the stdscr that main has not set (-y)
           no_stdscr == stdscr = "none"
       IN  CASE ~cache_there /\ no_stdscr ->
                  /\ pc' = "except"
                  /\ UNCHANGED <<media, exit_code, supply>>
             [] ~cache_there /\ ~no_stdscr ->
                  /\ pc' = "exited"
                  /\ exit_code' = 1
                  /\ UNCHANGED <<media, supply>>
             [] cache_there /\ no_stdscr /\ found # {} ->
                  /\ pc' = "except"
                  /\ UNCHANGED <<media, exit_code, supply>>
             [] cache_there /\ no_stdscr /\ found = {} ->
                  /\ pc' = "except"
                  /\ Video_FPS' = srcFPS
                  /\ loader_cap' = "released"
                  /\ decoder_ops' = decoder_ops + 1
                  /\ UNCHANGED <<total_frames, ascii_frames, exit_code,
                                 frame_size, disk_size, metadata, warnings>>
             [] OTHER ->
                  /\ Video_FPS' = srcFPS
                  /\ total_frames' = srcFrames
                  /\ ascii_frames' = FromDisk(disk, srcFrames)
                  /\ pc' = "get_player"
                  /\ warnings' = found
                  /\ loader_cap' = "released"
                  /\ decoder_ops' = decoder_ops + 1
                  /\ frame_size' = disk_size
                  /\ UNCHANGED <<exit_code, disk_size, metadata>>
    /\ UNCHANGED <<load_pos, flags, env, disk, clock, cap, player,
                   strayStop, skip_factor, frame_idx, now, sleep_arg, hist,
                   cli, gfx, screen, shown, life>>

\* Lines 219 / 265: player = get_vlc_player(audio_source).
GetVlcPlayer ==
    /\ pc = "get_player"
    /\ player' = "created"
    /\ pc' = "press_key"
    /\ UNCHANGED <<load_pos, flags, env, disk, clock, media, cap, strayStop,
                   skip_factor, frame_idx, now, sleep_arg, exit_code, hist,
                   cli, gfx, screen, supply, shown, life>>

----------------------------------------------------------------------------
\* draw_images (lines 720-784) and draw_images_live (lines 307-380).

\* The instants time.time() may show when the playback loop is about to
\* start (ms); `clock` is the time that has passed since.
StartInstants == {0, 5000}
TimeTime(t) == start_time + t

\* getch, player.play(), skip_factor, start_time, frame_idx = 0.
DrawStart ==
    /\ pc = "press_key"
    /\ player' = "playing"
    /\ IF EffectiveFps(Video_FPS, User_FPS) = 0
       THEN \* Video_FPS / effective_fps: ZeroDivisionError
            /\ pc' = "except"
            /\ UNCHANGED <<skip_factor, start_time, clock, frame_idx>>
       ELSE /\ skip_factor' = SkipFactor(Video_FPS, User_FPS)
            /\ \E t \in StartInstants : start_time' = t
            /\ clock' = 0
            /\ frame_idx' = 0
            /\ pc' = "loop"
    /\ UNCHANGED <<load_pos, flags, env, disk, media, cap, strayStop, now,
                   sleep_arg, exit_code, hist, cli, gfx, screen, supply,
                   shown, cache_there, cap_releases, unbound_release,
                   srcFPSFraction>>

\* Time the clock may have advanced by when the loop reads it.
Delays == {0, 40, 120, 260}
\* How much longer than asked a sleep may last.
Oversleep == {0, 30}

\* The values time.time() - start_time may show at the top of an iteration:
\* any later time (free), any later time that is not past the frame's ideal
\* time (never_behind), or exactly the frame's ideal time (on_schedule).
ClockReads ==
    CASE clockMode = "free" ->
            { clock + d : d \in { e \in Delays :
                e = 0 \/ clock + e <= IdealMs(total_frames, Video_FPS) + MaxLag } }
      [] clockMode = "never_behind" ->
            { clock + d : d \in { e \in Delays :
                (clock + e) * Video_FPS <= frame_idx * 1000 } }
      [] OTHER ->
            { t \in {IdealMs(frame_idx, Video_FPS)} :
                t * Video_FPS = frame_idx * 1000 /\ t >= clock }

\* time.sleep's argument t_ideal - now, in units of 1 / Video_FPS ms.
SleepArg(idx, t, fps) == idx * 1000 - t * fps

\* The values the clock may show when time.sleep(arg) returns: the sleep lasts
\* at least the time asked for (only an unconstrained clock oversleeps).
WakeTimes(arg) ==
    LET t == CeilDiv(clock * Video_FPS + arg, Video_FPS)
    IN  IF clockMode = "free" THEN { t + o : o \in Oversleep } ELSE {t}

\* `while frame_idx < framesAmount:` (live: `frame_idx <= max_frame_idx`),
\* then t_ideal and now = time.time() - start_time.
LoopTest ==
    /\ pc = "loop"
    /\ IF frame_idx < total_frames
       THEN IF Video_FPS = 0
            THEN \* frame_idx / Video_FPS: ZeroDivisionError
                 /\ pc' = "except"
                 /\ UNCHANGED <<clock, now, iters>>
            ELSE /\ \E t \in ClockReads :
                      /\ clock' = t
                      /\ now' = TimeTime(t) - start_time
                 /\ iters' = iters + 1
                 /\ pc' = "check"
       ELSE /\ pc' = "stop"
            /\ UNCHANGED <<clock, now, iters>>
    /\ iter_slept' = FALSE
    /\ UNCHANGED <<load_pos, flags, env, disk, media, cap, player,
                   strayStop, skip_factor, frame_idx, sleep_arg, exit_code,
                   rendered, sleeps, skips, cli, gfx, screen, supply,
                   drawn_size, life>>

\* An adaptive skip that jumps to the frame that is due now, however many
\* strides away it is.
SkipCheckCatchingUp ==
    /\ pc = "check"
    /\ IF ~DisableDynamicSkip /\ Behind(now, frame_idx, Video_FPS)
       THEN /\ frame_idx' = Max(frame_idx + skip_factor,
                                (now * Video_FPS) \div 1000)
            /\ skips' = skips + 1
            /\ pc' = "loop"
       ELSE /\ pc' = IF Early(now, frame_idx, Video_FPS) THEN "sleep" ELSE "fetch"
            /\ UNCHANGED <<frame_idx, skips>>
    /\ UNCHANGED <<load_pos, flags, env, disk, clock, media, cap, player,
                   strayStop, skip_factor, now, sleep_arg, exit_code,
                   rendered, sleeps, iters, cli, gfx, screen, supply, shown,
                   life>>

\* The adaptive skip with the -noskip flag ignored.
SkipCheckIgnoringNoskip ==
    /\ pc = "check"
    /\ IF Behind(now, frame_idx, Video_FPS)
       THEN /\ frame_idx' = frame_idx + skip_factor
            /\ skips' = skips + 1
            /\ pc' = "loop"
       ELSE /\ pc' = IF Early(now, frame_idx, Video_FPS) THEN "sleep" ELSE "fetch"
            /\ UNCHANGED <<frame_idx, skips>>
    /\ UNCHANGED <<load_pos, flags, env, disk, clock, media, cap, player,
                   strayStop, skip_factor, now, sleep_arg, exit_code,
                   rendered, sleeps, iters, cli, gfx, screen, supply, shown,
                   life>>

\* Lines 743-747 / 330-334: the adaptive skip, else the choice between
\* sleeping and fetching at once.
SkipCheck ==
    /\ pc = "check"
    /\ IF ~DisableDynamicSkip /\ Behind(now, frame_idx, Video_FPS)
       THEN /\ frame_idx' = frame_idx + skip_factor
            /\ skips' = skips + 1
            /\ pc' = "loop"
       ELSE /\ pc' = IF Early(now, frame_idx, Video_FPS) THEN "sleep" ELSE "fetch"
            /\ UNCHANGED <<frame_idx, skips>>
    /\ UNCHANGED <<load_pos, flags, env, disk, clock, media, cap, player,
                   strayStop, skip_factor, now, sleep_arg, exit_code,
                   rendered, sleeps, iters, cli, gfx, screen, supply, shown,
                   life>>

\* A sleep that is cut short by the skip threshold.
SleepShort ==
    /\ pc = "sleep"
    /\ LET arg == SleepArg(frame_idx, now, Video_FPS) - SkipThresholdMs * Video_FPS
       IN  /\ sleep_arg' = arg
           /\ \E t \in WakeTimes(arg) : clock' = t
    /\ sleeps' = sleeps + 1
    /\ pc' = "fetch"
    /\ iter_slept' = TRUE
    /\ UNCHANGED <<load_pos, flags, env, disk, media, cap, player,
                   strayStop, skip_factor, frame_idx, now, exit_code,
                   rendered, skips, iters, cli, gfx, screen, supply,
                   drawn_size, life>>

\* Lines 748 / 335: time.sleep(t_ideal - now).
Sleep ==
    /\ pc = "sleep"
    /\ LET arg == SleepArg(frame_idx, now, Video_FPS)
       IN  /\ sleep_arg' = arg
           /\ \E t \in WakeTimes(arg) : clock' = t
    /\ sleeps' = sleeps + 1
    /\ pc' = "fetch"
    /\ iter_slept' = TRUE
    /\ UNCHANGED <<load_pos, flags, env, disk, media, cap, player,
                   strayStop, skip_factor, frame_idx, now, exit_code,
                   rendered, skips, iters, cli, gfx, screen, supply,
                   drawn_size, life>>

\* What the fetch of frame_idx can give: a source frame, a live read that
\* fails, or an IndexError (frame_idx past the end of ascii_frames).
Got(f) == [kind |-> "frame", src |-> f]
ReadFails == [kind |-> "fail", src |-> -1]
IndexError == [kind |-> "IndexError", src |-> -1]

Fetched ==
    IF Precompute
    THEN IF frame_idx < Len(ascii_frames)
         THEN {Got(ascii_frames[frame_idx + 1])} ELSE {IndexError}
    ELSE (IF frame_idx < srcFrames THEN {Got(frame_idx)} ELSE {ReadFails})
         \cup (IF decodeFaulty THEN {ReadFails} ELSE {})

\* A failed live read that retries the same frame.
RenderRetrying ==
    /\ pc = "fetch"
    /\ \E f \in Fetched :
        IF f = IndexError
        THEN /\ pc' = "except"
             /\ UNCHANGED <<frame_idx, rendered, drawn_size>>
        ELSE IF f = ReadFails
        THEN /\ pc' = "loop"
             /\ UNCHANGED frame_idx
             /\ UNCHANGED <<rendered, drawn_size>>
        ELSE /\ rendered' = Append(rendered, [idx |-> frame_idx, src |-> f.src])
             /\ drawn_size' = IF Precompute THEN frame_size
                              ELSE FrameSizeFor(term_size)
             /\ frame_idx' = frame_idx + skip_factor
             /\ pc' = "loop"
    /\ decoder_ops' = IF Precompute THEN decoder_ops ELSE decoder_ops + 1
    /\ UNCHANGED <<load_pos, flags, env, disk, clock, media, cap, player,
                   strayStop, skip_factor, now, sleep_arg, exit_code,
                   sleeps, skips, iters, cli, gfx, screen, loader_cap,
                   frame_size, disk_size, metadata, warnings, iter_slept,
                   life>>

\* A failed live read that is raised as an error.
RenderRaising ==
    /\ pc = "fetch"
    /\ \E f \in Fetched :
        IF f = IndexError
        THEN /\ pc' = "except"
             /\ UNCHANGED <<frame_idx, rendered, drawn_size>>
        ELSE IF f = ReadFails
        THEN /\ pc' = "except"
             /\ UNCHANGED frame_idx
             /\ UNCHANGED <<rendered, drawn_size>>
        ELSE /\ rendered' = Append(rendered, [idx |-> frame_idx, src |-> f.src])
             /\ drawn_size' = IF Precompute THEN frame_size
                              ELSE FrameSizeFor(term_size)
             /\ frame_idx' = frame_idx + skip_factor
             /\ pc' = "loop"
    /\ decoder_ops' = IF Precompute THEN decoder_ops ELSE decoder_ops + 1
    /\ UNCHANGED <<load_pos, flags, env, disk, clock, media, cap, player,
                   strayStop, skip_factor, now, sleep_arg, exit_code,
                   sleeps, skips, iters, cli, gfx, screen, loader_cap,
                   frame_size, disk_size, metadata, warnings, iter_slept,
                   life>>

\* Lines 749-783 / 337-379: fetch the frame (live: cap.set and cap.read,
\* then process_frame), draw it, refresh, and advance frame_idx; a live read
\* that fails advances without drawing.
Render ==
    /\ pc = "fetch"
    /\ \E f \in Fetched :
        IF f = IndexError
        THEN /\ pc' = "except"
             /\ UNCHANGED <<frame_idx, rendered, drawn_size>>
        ELSE IF f = ReadFails
        THEN /\ frame_idx' = frame_idx + skip_factor
             /\ pc' = "loop"
             /\ UNCHANGED <<rendered, drawn_size>>
        ELSE /\ rendered' = Append(rendered, [idx |-> frame_idx, src |-> f.src])
             /\ drawn_size' = IF Precompute THEN frame_size
                              ELSE FrameSizeFor(term_size)
             /\ frame_idx' = frame_idx + skip_factor
             /\ pc' = "loop"
    /\ decoder_ops' = IF Precompute THEN decoder_ops ELSE decoder_ops + 1
    /\ UNCHANGED <<load_pos, flags, env, disk, clock, media, cap, player,
                   strayStop, skip_factor, now, sleep_arg, exit_code,
                   sleeps, skips, iters, cli, gfx, screen, loader_cap,
                   frame_size, disk_size, metadata, warnings, iter_slept,
                   life>>

\* Lines 784 / 380: player.stop() after the loop.
PlayerStop ==
    /\ pc = "stop"
    /\ player' = "stopped"
    /\ pc' = IF Precompute THEN "epilogue" ELSE "release"
    /\ UNCHANGED <<load_pos, flags, env, disk, clock, media, cap, strayStop,
                   skip_factor, frame_idx, now, sleep_arg, exit_code, hist,
                   cli, gfx, screen, supply, shown, life>>

----------------------------------------------------------------------------
\* main: after the playback loop, and the two except clauses.

\* Line 221 (live mode, still inside the try block): cap.release().
CapRelease ==
    /\ pc = "release"
    /\ cap' = "released"
    /\ cap_releases' = cap_releases + 1
    /\ pc' = "epilogue"
    /\ UNCHANGED <<load_pos, flags, env, disk, clock, media, player,
                   strayStop, skip_factor, frame_idx, now, sleep_arg,
                   exit_code, hist, cli, gfx, screen, supply, shown,
                   cache_there, unbound_release, start_time,
                   srcFPSFraction>>

\* Lines 277-278: stop_curses() and the end of main.
Epilogue ==
    /\ pc = "epilogue"
    /\ curses_mode' = IF ~YT \/ ~Precompute THEN "restored" ELSE curses_mode
    /\ pc' = "exited"
    /\ exit_code' = 0
    /\ UNCHANGED <<load_pos, flags, env, disk, clock, media, cap, player,
                   strayStop, skip_factor, frame_idx, now, sleep_arg, hist,
                   cli, gfx, stdscr, term_size, src_size, supply, shown,
                   life>>

\* The positions of main inside its try block.
InTry == {"setup", "metadata", "read_loop", "get_player", "press_key",
          "loop", "check", "sleep", "fetch", "stop", "release"}

\* The positions inside the playback loop.
InLoop == {"loop", "check", "sleep", "fetch"}

\* A user interrupt (Ctrl-C) raises KeyboardInterrupt wherever main is.
Interrupt ==
    /\ pc \in InTry
    /\ pc' = "interrupted"
    /\ UNCHANGED <<load_pos, flags, env, disk, clock, media, cap, player,
                   strayStop, skip_factor, frame_idx, now, sleep_arg,
                   exit_code, hist, cli, gfx, screen, supply, shown, life>>

\* A handler that swallows the interrupt and goes on playing.
KeyboardInterruptResumes ==
    /\ pc = "interrupted"
    /\ pc' = IF player = "playing" THEN "sleep" ELSE "exited"
    /\ exit_code' = IF player = "playing" THEN exit_code ELSE 0
    /\ UNCHANGED <<load_pos, flags, env, disk, clock, media, cap, player,
                   strayStop, skip_factor, frame_idx, now, sleep_arg, hist,
                   cli, gfx, screen, supply, shown, life>>

\* stop_curses as stop_audio_and_curses calls it (lines 840-845, 850-854):
\* the terminal is restored; without a terminal session curs_set raises and
\* the error is swallowed.
StopCursesTried == IF curses_mode = "off" THEN "off" ELSE "restored"

\* The body the two except clauses share (lines 268-270, 273-275):
\* cap.release() in live mode, then stop_audio_and_curses(), which restores
\* the terminal and stops a media player it has just made, not the session's
\* player; the process then ends with status `status`. When cap is not yet
\* bound, cap.release() raises a NameError, which ends the process with the
\* clause unfinished and status 1.
Cleanup(status) ==
    IF ~Precompute /\ cap = "unbound"
    THEN /\ unbound_release' = TRUE
         /\ exit_code' = 1
         /\ UNCHANGED <<cap, cap_releases, strayStop, curses_mode>>
    ELSE /\ cap' = IF Precompute THEN cap ELSE "released"
         /\ cap_releases' = IF Precompute THEN cap_releases
                            ELSE cap_releases + 1
         /\ strayStop' = TRUE
         /\ curses_mode' = StopCursesTried
         /\ exit_code' = status
         /\ UNCHANGED unbound_release

\* Lines 267-271: the cleanup, then sys.exit(0).
KeyboardInterruptHandler ==
    /\ pc = "interrupted"
    /\ Cleanup(0)
    /\ pc' = "exited"
    /\ UNCHANGED <<load_pos, flags, env, disk, clock, media, player,
                   skip_factor, frame_idx, now, sleep_arg, hist, cli, gfx,
                   stdscr, term_size, src_size, supply, shown, cache_there,
                   start_time, srcFPSFraction>>

\* Lines 272-276: the same cleanup for any other exception, which is then
\* raised again.
ExceptionHandler ==
    /\ pc = "except"
    /\ Cleanup(1)
    /\ pc' = "exited"
    /\ UNCHANGED <<load_pos, flags, env, disk, clock, media, player,
                   skip_factor, frame_idx, now, sleep_arg, hist, cli, gfx,
                   stdscr, term_size, src_size, supply, shown, cache_there,
                   start_time, srcFPSFraction>>

Next ==
    \/ SetupVideoCapture
    \/ GetVideoMetadataFromCap
    \/ LoadStart
    \/ LoadKeepFrame
    \/ LoadFinish
    \/ UseCachedFramesSetup
    \/ GetVlcPlayer
    \/ DrawStart
    \/ LoopTest
    \/ SkipCheck
    \/ Sleep
    \/ Render
    \/ PlayerStop
    \/ CapRelease
    \/ Epilogue
    \/ Interrupt
    \/ KeyboardInterruptHandler
    \/ ExceptionHandler

Spec == Init /\ [][Next]_vars

\* The process runs on until it exits: no step of it waits for anything but
\* the clock, and a user interrupt may or may not come.
FairSpec == Spec /\ WF_vars(Next)

----------------------------------------------------------------------------
\* The skip-factor computation on its own: draw_images or draw_images_live
\* entered with any source rate and any requested display rate.

UserRates == {None} \cup { <<u>> : u \in -2 .. 2 * MaxRate + 2 }

SkipInit ==
    /\ rest = <<>>
    /\ printed = "none"
    /\ YT = FALSE
    /\ local_file = <<"movie.mp4">>
    /\ youtube_link = None
    /\ Subtitles = FALSE
    /\ DebugFPS = FALSE
    /\ ColorMode = FALSE
    /\ FreshColors
    /\ stdscr = "curses"
    /\ curses_mode = "visual"
    /\ cache_there = TRUE
    /\ cap_releases = 0
    /\ unbound_release = FALSE
    /\ start_time = 0
    /\ srcFPSFraction = 0
    /\ term_size = Usual.term
    /\ src_size = Usual.src
    /\ decoder_ops = 0
    /\ frame_size = <<0, 0>>
    /\ disk_size = <<0, 0>>
    /\ metadata = NoMetadata
    /\ warnings = {}
    /\ drawn_size = <<0, 0>>
    /\ iter_slept = FALSE
    /\ Precompute \in BOOLEAN
    /\ UseCachedFrames = FALSE
    /\ WriteFrames = FALSE
    /\ DisableDynamicSkip = FALSE
    /\ User_FPS \in UserRates
    /\ srcFPS \in 1 .. MaxRate
    /\ srcFrames = 0
    /\ decodeFaulty = FALSE
    /\ disk = <<>>
    /\ clockMode = "free"
    /\ clock = 0
    /\ Video_FPS = srcFPS
    /\ total_frames = 0
    /\ ascii_frames = <<>>
    /\ cap = IF Precompute THEN "unbound" ELSE "open"
    /\ player = "created"
    /\ strayStop = FALSE
    /\ load_pos = 0
    /\ skip_factor = 0
    /\ frame_idx = 0
    /\ now = 0
    /\ sleep_arg = 0
    /\ pc = "press_key"
    /\ exit_code = -1
    /\ rendered = <<>>
    /\ sleeps = 0
    /\ skips = 0
    /\ iters = 0
    /\ loader_cap = IF Precompute THEN "released" ELSE "none"

SkipSpec == SkipInit /\ [][DrawStart]_vars

----------------------------------------------------------------------------
\* Properties.

\* The frame indices rendered so far, and the source frames they showed.
RenderedIdx == [i \in 1 .. Len(rendered) |-> rendered[i].idx]
RenderedSrc == [i \in 1 .. Len(rendered) |-> rendered[i].src]

\* C1: in both playback loops, whatever the clock does and whether or not
\* adaptive skip is on, the frame indices rendered are strictly increasing:
\* no index is rendered twice.
C1_RenderedStrictlyIncreasing ==
    \A i \in 1 .. Len(rendered) - 1 : rendered[i].idx < rendered[i + 1].idx

\* Two frames were rendered with an adaptive skip between them.
C1_Witness ==
    /\ Len(rendered) >= 2
    /\ skips > 0
    /\ rendered[Len(rendered)].idx > rendered[1].idx + skip_factor

\* C2: the stride is max(1, round(source rate / requested rate)) for every
\* positive requested rate (30 and 10 give 3), it is 1 when the requested
\* rate is absent or <= 0, and it is always a positive integer.
C2_SkipFactor ==
    pc = "loop" =>
        /\ skip_factor \in Nat \ {0}
        /\ (User_FPS # None /\ User_FPS[1] > 0
                => skip_factor = Max(1, Round(Video_FPS, User_FPS[1])))
        /\ (User_FPS = None \/ User_FPS[1] <= 0 => skip_factor = 1)
        /\ (Video_FPS = 30 /\ User_FPS = <<10>> => skip_factor = 3)

\* The stride was computed for rates whose ratio, 7.5, has to be rounded.
C2_Witness ==
    pc = "loop" /\ Video_FPS = 30 /\ User_FPS = <<4>> /\ skip_factor = 8

\* C3: with -noskip, frame_idx changes only at the end of an iteration that
\* fetched a frame, by exactly +skip_factor, and every iteration changes it so;
\* no step is an adaptive skip, however late the clock is.
C3_NoskipStride ==
    [][ DisableDynamicSkip =>
          /\ skips' = skips
          /\ (frame_idx' # frame_idx =>
                pc = "fetch" /\ frame_idx' = frame_idx + skip_factor)
          /\ (pc \in InLoop /\ pc # "loop" /\ pc' = "loop" =>
                frame_idx' = frame_idx + skip_factor) ]_vars

\* With -noskip a frame is about to be rendered more than 50 ms late.
C3_Witness ==
    /\ DisableDynamicSkip
    /\ pc = "fetch"
    /\ frame_idx > 0
    /\ now * Video_FPS > frame_idx * 1000 + 50 * Video_FPS

\* The resized/ cache, when one is reused, holds every frame of the video.
CacheIsWhole == UseCachedFrames => Len(disk) = srcFrames

\* A 30 fps video of 90 frames played with -f 10 on a clock that is never
\* behind schedule.
Scenario30 ==
    /\ srcFPS = 30 /\ srcFrames = 90 /\ User_FPS = <<10>>
    /\ clockMode = "never_behind"
    /\ CacheIsWhole

\* C4: in that scenario the frames rendered are exactly source frames
\* 0, 3, 6, ..., 87 (30 renders), with adaptive skip on or off, in each
\* frame-supply mode.
C4_EveryThirdFrame ==
    Scenario30 /\ pc = "stop" => RenderedSrc = [i \in 1 .. 30 |-> 3 * (i - 1)]

\* What the code does hold to in that scenario: the live loop, and a reused
\* cache of all 90 frames, render source frames 0, 3, ..., 87.
C4_LiveEveryThirdFrame ==
    Scenario30 /\ (~Precompute \/ UseCachedFrames) /\ pc = "stop"
        => RenderedSrc = [i \in 1 .. 30 |-> 3 * (i - 1)]

\* A 25 fps video of 100 frames played with -f 25, adaptive skip on, on a
\* clock that shows exactly the ideal time at every iteration.
Scenario25 ==
    /\ srcFPS = 25 /\ srcFrames = 100 /\ User_FPS = <<25>>
    /\ ~DisableDynamicSkip
    /\ clockMode = "on_schedule"
    /\ CacheIsWhole

\* C5: in that scenario the loop renders indices 0..99 in order, each once,
\* with skip_factor = 1, and has rendered all 100 when it stops.
C5_AllHundredFrames ==
    Scenario25 =>
        /\ pc \in InLoop => skip_factor = 1
        /\ Len(rendered) <= 100
        /\ \A i \in 1 .. Len(rendered) :
                rendered[i] = [idx |-> i - 1, src |-> i - 1]
        /\ (pc \in {"stop", "release", "epilogue"} \/ player = "stopped"
                => Len(rendered) = 100)
        /\ (pc = "exited" /\ exit_code = 0 /\ ~strayStop => player = "stopped")

\* The session of that scenario has ended with the player stopped after 100
\* renders.
C5_Witness ==
    Scenario25 /\ pc = "exited" /\ player = "stopped" /\ Len(rendered) = 100
        /\ skips = 0 /\ iters = 100

\* C6: with adaptive skip on, an iteration that finds the clock more than
\* 50 ms past the frame's ideal time advances frame_idx by skip_factor and
\* goes back to the loop test without rendering and without sleeping; no
\* frame is rendered, and no sleep begun, in such an iteration.
C6_SkipsWhenBehind ==
    [][ ~DisableDynamicSkip /\ pc \in InLoop
        /\ now * Video_FPS > frame_idx * 1000 + 50 * Video_FPS =>
          /\ pc \in {"loop", "check"}
          /\ (pc = "check" /\ pc' # "interrupted" =>
                /\ frame_idx' = frame_idx + skip_factor
                /\ pc' = "loop"
                /\ rendered' = rendered
                /\ sleeps' = sleeps
                /\ clock' = clock) ]_vars

\* An iteration with adaptive skip on has just read a clock that is more than
\* 50 ms late for a frame after the first.
C6_Witness ==
    /\ ~DisableDynamicSkip
    /\ pc = "check"
    /\ frame_idx > 0
    /\ Len(rendered) > 0
    /\ now * Video_FPS > frame_idx * 1000 + 50 * Video_FPS

\* C7: no frame is rendered before its ideal time: an iteration that finds
\* the clock early sleeps for exactly t_ideal - now before it fetches, so the
\* fetch and render of index i start at a clock of at least i / Video_FPS.
C7_NeverEarly ==
    /\ pc = "sleep" =>
            now * Video_FPS < frame_idx * 1000
    /\ pc = "fetch" =>
            /\ clock * Video_FPS >= frame_idx * 1000
            /\ (now * Video_FPS < frame_idx * 1000 =>
                    /\ sleep_arg = frame_idx * 1000 - now * Video_FPS
                    /\ clock * Video_FPS >= now * Video_FPS + sleep_arg)

\* A frame after the first is about to be rendered after a sleep.
C7_Witness ==
    /\ pc = "fetch"
    /\ frame_idx > 0
    /\ now * Video_FPS < frame_idx * 1000
    /\ sleep_arg > 0

\* C8: the playback loop is left through its test exactly when
\* frame_idx >= total_frames, and it is always left: for every frame count,
\* clock and pattern of failed live reads each iteration (render, adaptive
\* skip, failed read) advances frame_idx by skip_factor >= 1, so the
\* session comes to its end.
C8_LoopTerminates ==
    /\ [](pc = "stop" => frame_idx >= total_frames)
    /\ [](pc \in {"check", "sleep", "fetch"} => frame_idx < total_frames)
    /\ [](pc \in InLoop => skip_factor >= 1)
    /\ [][ (pc \in InLoop /\ pc # "loop" /\ pc' = "loop")
             => (frame_idx' = frame_idx + skip_factor) ]_vars
    /\ (pc = "loop" ~> pc \notin InLoop)
    /\ <>(pc = "exited")

\* A live loop has ended through its test after renders, adaptive skips and
\* failed reads.
C8_Witness ==
    /\ pc = "stop"
    /\ ~Precompute /\ decodeFaulty
    /\ Len(rendered) > 0
    /\ skips > 0
    /\ iters > skips + Len(rendered)

\* C9: once play() has been issued on the session's player, every end of the
\* session (the loop running out, or a user interrupt during playback) has
\* issued stop() on that same player before the process ends.
C9_StopOnSessionPlayer ==
    pc = "exited" /\ exit_code = 0 => player # "playing"

\* C10: once a user interrupt has been observed, no frame is rendered and no
\* sleep is begun; the one step that follows is the cleanup (decoder release,
\* audio stop, terminal restore) that ends in the process exit, and nothing
\* happens after the exit.
C10_NothingAfterInterrupt ==
    [][ /\ (pc = "interrupted" =>
                /\ pc' = "exited"
                /\ rendered' = rendered
                /\ sleeps' = sleeps
                /\ frame_idx' = frame_idx
                /\ clock' = clock)
        /\ (pc = "exited" => UNCHANGED vars) ]_vars

\* The process has exited on a user interrupt that came during playback,
\* after frames were rendered and a sleep was made.
C10_Witness ==
    /\ pc = "exited" /\ exit_code = 0
    /\ player = "playing"
    /\ Len(rendered) > 0
    /\ sleeps > 0
    /\ frame_idx < total_frames

----------------------------------------------------------------------------
\* A live read that fails.

\* A step of the live loop from its fetch that draws nothing and is not an
\* interrupt: cap.read() has failed.
FailedRead ==
    /\ pc = "fetch" /\ ~Precompute
    /\ rendered' = rendered
    /\ pc' # "interrupted"

\* C11 (as stated): a live iteration whose seek/decode fails advances
\* frame_idx by exactly skip_factor, renders nothing and has performed no
\* sleep, like an adaptive-skip iteration, and the session continues.
C11_FailedReadNeverSlept ==
    [][ FailedRead =>
          (/\ frame_idx' = frame_idx + skip_factor
           /\ pc' = "loop"
           /\ ~iter_slept) ]_vars

\* C11 (amended): a live iteration whose seek/decode fails advances frame_idx
\* by exactly skip_factor, renders nothing and does not sleep after the
\* failed read (it may have slept before it); no error is raised, the player
\* keeps playing and the loop goes on.
C11_FailedReadAdvances ==
    [][ FailedRead =>
          (/\ frame_idx' = frame_idx + skip_factor
           /\ pc' = "loop"
           /\ sleeps' = sleeps /\ clock' = clock
           /\ player' = player /\ exit_code' = exit_code) ]_vars

\* The second iteration of a live session slept until its frame was due and
\* then failed to read it.
C11_Witness ==
    /\ ~Precompute /\ decodeFaulty
    /\ pc = "loop" /\ iter_slept
    /\ iters = 2 /\ skips = 0 /\ Len(rendered) = 1
    /\ frame_idx = 2 * skip_factor

----------------------------------------------------------------------------
\* The colour support (lines 38-70) and the inner loop of the transcoders
\* (process_frame 404-413, load_resize_precompute_in_memory 567-576,
\* precompute_ascii_frames_from_disk 630-639).

\* ASCII grayscale map for shading (line 38).
chars_gray == <<"B", "S", "#", "&", "@", "$", "%", "*", "!", ".", " ">>

\* The character every cell has in colour mode.
Block == "█"

\* char_idx with a divisor of 23.
CharIdxBy23(val) == val \div 23

\* char_idx = int(val // 25)
CharIdx(val) == val \div 25

\* chars_gray[char_idx]: Python raises IndexError past the end of the list.
CharsGrayAt(i) ==
    IF i + 1 \in DOMAIN chars_gray THEN chars_gray[i + 1] ELSE "IndexError"

\* xterm_256_index with the gray ramp computed over 24 steps (one too many).
xterm_256_index_ramp24(r, g, b) ==
    IF r = g /\ g = b
    THEN 232 + Round(r * 24, 255)
    ELSE 16 + 36 * Round(r * 5, 255) + 6 * Round(g * 5, 255)
            + Round(b * 5, 255)

\* xterm_256_index with the weights of the red and green levels exchanged.
xterm_256_index_swapped(r, g, b) ==
    IF r = g /\ g = b
    THEN 232 + Round(r * 23, 255)
    ELSE 16 + 6 * Round(r * 5, 255) + 36 * Round(g * 5, 255)
            + Round(b * 5, 255)

\* xterm_256_index(r, g, b), lines 44-57: round(c / 255.0 * k) is
\* Round(c * k, 255) (no channel value falls on a tie for k = 5 or 23).
xterm_256_index(r, g, b) ==
    IF r = g /\ g = b
    THEN 232 + Round(r * 23, 255)
    ELSE 16 + 36 * Round(r * 5, 255) + 6 * Round(g * 5, 255)
            + Round(b * 5, 255)

\* COLOR_PAIR_CACHE is a dict: the set of its items.
InCache(fg, bg) == \E e \in COLOR_PAIR_CACHE : e.fg = fg /\ e.bg = bg
Cached(fg, bg) == CHOOSE e \in COLOR_PAIR_CACHE : e.fg = fg /\ e.bg = bg

\* get_color_pair with a cache that holds only the last pair made.
get_color_pair_forgetting(fg_idx, bg_idx) ==
    IF InCache(fg_idx, bg_idx)
    THEN [cache |-> COLOR_PAIR_CACHE, next |-> NEXT_COLOR_PAIR_ID,
          pair_id |-> Cached(fg_idx, bg_idx).id]
    ELSE [cache |-> {[fg |-> fg_idx, bg |-> bg_idx,
                      id |-> NEXT_COLOR_PAIR_ID]},
          next |-> NEXT_COLOR_PAIR_ID + 1,
          pair_id |-> NEXT_COLOR_PAIR_ID]

\* get_color_pair without the lookup: every call makes a new pair.
get_color_pair_uncached(fg_idx, bg_idx) ==
    [cache |-> COLOR_PAIR_CACHE
                 \cup {[fg |-> fg_idx, bg |-> bg_idx, id |-> NEXT_COLOR_PAIR_ID]},
     next |-> NEXT_COLOR_PAIR_ID + 1,
     pair_id |-> NEXT_COLOR_PAIR_ID]

\* get_color_pair(fg_idx, bg_idx), lines 58-70: the globals it leaves and the
\* pair id it returns (curses.init_pair is taken to accept the pair).
get_color_pair(fg_idx, bg_idx) ==
    IF InCache(fg_idx, bg_idx)
    THEN [cache |-> COLOR_PAIR_CACHE, next |-> NEXT_COLOR_PAIR_ID,
          pair_id |-> Cached(fg_idx, bg_idx).id]
    ELSE [cache |-> COLOR_PAIR_CACHE
                      \cup {[fg |-> fg_idx, bg |-> bg_idx,
                             id |-> NEXT_COLOR_PAIR_ID]},
          next |-> NEXT_COLOR_PAIR_ID + 1,
          pair_id |-> NEXT_COLOR_PAIR_ID]

\* The variables the colour support and the transcoder's inner loop leave
\* alone.
NotColors ==
    <<flags, env, disk, clock, media, cap, player, strayStop, load_pos,
      skip_factor, frame_idx, now, sleep_arg, pc, exit_code, hist, cli,
      screen, supply, shown, life>>

\* A colour cell whose character is picked from chars_gray by the mean of
\* the three channels.
ProcessPixelShaded(p) ==
    /\ pixel' = p
    /\ IF ColorMode
       THEN LET idx == xterm_256_index(p[1], p[2], p[3])
                got == get_color_pair(idx, idx)
            IN  /\ color_idx' = idx
                /\ COLOR_PAIR_CACHE' = got.cache
                /\ NEXT_COLOR_PAIR_ID' = got.next
                /\ pair_call' = [fg |-> idx, bg |-> idx, id |-> got.pair_id]
                /\ cell' = [char |-> CharsGrayAt(CharIdx((p[1] + p[2] + p[3]) \div 3)),
                            pair |-> got.pair_id]
                /\ UNCHANGED char_idx
       ELSE /\ char_idx' = CharIdx(p[1])
            /\ cell' = [char |-> CharsGrayAt(char_idx'), pair |-> 0]
            /\ UNCHANGED <<color_idx, COLOR_PAIR_CACHE, NEXT_COLOR_PAIR_ID,
                           pair_call>>
    /\ UNCHANGED NotColors

\* One pass of the inner loop for pixel p, an <<r, g, b>> triple in colour
\* mode and a luminance <<val>> otherwise.
ProcessPixel(p) ==
    /\ pixel' = p
    /\ IF ColorMode
       THEN LET idx == xterm_256_index(p[1], p[2], p[3])
                got == get_color_pair(idx, idx)
            IN  /\ color_idx' = idx
                /\ COLOR_PAIR_CACHE' = got.cache
                /\ NEXT_COLOR_PAIR_ID' = got.next
                /\ pair_call' = [fg |-> idx, bg |-> idx, id |-> got.pair_id]
                /\ cell' = [char |-> Block, pair |-> got.pair_id]
                /\ UNCHANGED char_idx
       ELSE /\ char_idx' = CharIdx(p[1])
            /\ cell' = [char |-> CharsGrayAt(char_idx'), pair |-> 0]
            /\ UNCHANGED <<color_idx, COLOR_PAIR_CACHE, NEXT_COLOR_PAIR_ID,
                           pair_call>>
    /\ UNCHANGED NotColors

\* Lines 367-377 (and 771-781): the debug overlay's colour pair.
DebugOverlay ==
    /\ DebugFPS
    /\ LET green_idx == xterm_256_index(0, 255, 0)
           black_idx == 0
           got == get_color_pair(green_idx, black_idx)
       IN  /\ COLOR_PAIR_CACHE' = got.cache
           /\ NEXT_COLOR_PAIR_ID' = got.next
           /\ pair_call' = [fg |-> green_idx, bg |-> black_idx,
                            id |-> got.pair_id]
    /\ UNCHANGED <<pixel, cell, color_idx, char_idx>>
    /\ UNCHANGED NotColors

\* The channel values on either side of each boundary between two levels
\* of the 6 x 6 x 6 cube, and the two ends.
ChannelEdges == {0, 25, 26, 76, 77, 127, 128, 178, 179, 229, 230, 255}

\* The pixels tried one at a time: every luminance in grayscale mode; in
\* colour mode every gray and every triple of edge values.
Pixels(color) ==
    IF color
    THEN { <<v, v, v>> : v \in 0 .. 255 }
         \cup (ChannelEdges \X ChannelEdges \X ChannelEdges)
    ELSE { <<v>> : v \in 0 .. 255 }

\* draw_images_live about to process the first pixel of the first frame of a
\* one-frame video, in colour or grayscale mode, with or without -debug.
TranscoderInit(colors, debugs) ==
    /\ rest = <<>>
    /\ printed = "none"
    /\ YT = FALSE
    /\ local_file = <<"movie.mp4">>
    /\ youtube_link = None
    /\ Subtitles = FALSE
    /\ DebugFPS \in debugs
    /\ ColorMode \in colors
    /\ FreshColors
    /\ stdscr = "curses"
    /\ curses_mode = "visual"
    /\ cache_there = TRUE
    /\ cap_releases = 0
    /\ unbound_release = FALSE
    /\ start_time = 0
    /\ srcFPSFraction = 0
    /\ term_size = Usual.term
    /\ src_size = Usual.src
    /\ loader_cap = "none"
    /\ decoder_ops = 3
    /\ frame_size = <<0, 0>>
    /\ disk_size = <<0, 0>>
    /\ metadata = NoMetadata
    /\ warnings = {}
    /\ drawn_size = <<0, 0>>
    /\ iter_slept = FALSE
    /\ Precompute = FALSE
    /\ UseCachedFrames = FALSE
    /\ WriteFrames = FALSE
    /\ DisableDynamicSkip = FALSE
    /\ User_FPS = None
    /\ srcFPS = 25
    /\ srcFrames = 1
    /\ decodeFaulty = FALSE
    /\ disk = <<>>
    /\ clockMode = "free"
    /\ clock = 0
    /\ Video_FPS = 25
    /\ total_frames = 1
    /\ ascii_frames = <<>>
    /\ cap = "open"
    /\ player = "playing"
    /\ strayStop = FALSE
    /\ load_pos = 0
    /\ skip_factor = 1
    /\ frame_idx = 0
    /\ now = 0
    /\ sleep_arg = 0
    /\ pc = "fetch"
    /\ exit_code = -1
    /\ rendered = <<>>
    /\ sleeps = 0
    /\ skips = 0
    /\ iters = 1

\* The transcoder applied to one pixel, any of Pixels.
PixelInit == TranscoderInit(BOOLEAN, {FALSE})
FirstPixel == cell = NoCell /\ \E p \in Pixels(ColorMode) : ProcessPixel(p)
PixelSpec == PixelInit /\ [][FirstPixel]_vars

\* A few colour pixels, some of them with the same xterm index.
FewPixels ==
    {<<0, 0, 0>>, <<3, 3, 3>>, <<255, 255, 255>>, <<0, 255, 0>>,
     <<0, 250, 10>>, <<255, 0, 0>>}

\* Colour mode with -debug: any sequence of cells of FewPixels and of debug
\* overlays.
PaletteInit == TranscoderInit({TRUE}, {TRUE})
AnyPixel == \E p \in FewPixels : ProcessPixel(p)
PaletteNext == AnyPixel \/ DebugOverlay
PaletteSpec == PaletteInit /\ [][PaletteNext]_vars

----------------------------------------------------------------------------
\* Properties of the glyph mapping and of the colour support.

\* A cell has been made of `pixel`.
CellDone == cell # NoCell
IsGray(p) == p[1] = p[2] /\ p[2] = p[3]

\* C12: for every luminance 0..255 the grayscale mapping (val // 25 into the
\* 11 characters of chars_gray) gives exactly one character of the alphabet
\* with no index out of range, the bucket index does not decrease as the
\* luminance grows, and 250..255 all fall in the last bucket.
C12_GrayBucket ==
    (CellDone /\ ~ColorMode) =>
        /\ Len(chars_gray) = 11
        /\ char_idx \in 0 .. Len(chars_gray) - 1
        /\ cell.char = chars_gray[char_idx + 1]
        /\ Cardinality({ i \in DOMAIN chars_gray : chars_gray[i] = cell.char }) = 1
        /\ \A w \in 0 .. pixel[1] : CharIdx(w) <= char_idx
        /\ pixel[1] \in 250 .. 255 => char_idx = Len(chars_gray) - 1

\* Luminance 255 has been given the last character, the blank.
C12_Witness ==
    /\ CellDone /\ ~ColorMode
    /\ pixel = <<255>> /\ char_idx = 10 /\ cell.char = " "

\* C13: xterm_256_index(v, v, v) is in 232..255 for every v in 0..255, is 232
\* for v = 0 and 255 for v = 255, and does not decrease as v grows.
C13_GrayRamp ==
    (CellDone /\ ColorMode /\ IsGray(pixel)) =>
        /\ color_idx \in 232 .. 255
        /\ pixel[1] = 0 => color_idx = 232
        /\ pixel[1] = 255 => color_idx = 255
        /\ \A w \in 0 .. pixel[1] : xterm_256_index(w, w, w) <= color_idx

\* White has been given the top of the gray ramp.
C13_Witness ==
    /\ CellDone /\ ColorMode
    /\ pixel = <<255, 255, 255>> /\ color_idx = 255

\* Level l of the 6-level cube is the one nearest to channel value c.
Nearest(c, l) ==
    LET d == 5 * c - 255 * l
    IN  2 * (IF d >= 0 THEN d ELSE -d) < 255

\* C14: for every non-gray (r, g, b) the index is 16 + 36R + 6G + B with R, G,
\* B the levels 0..5 nearest to r, g, b, so it is in 16..231; over all inputs
\* the index is in 16..255.
C14_ColorCube ==
    (CellDone /\ ColorMode) =>
        /\ color_idx \in 16 .. 255
        /\ ~IsGray(pixel) =>
             /\ color_idx \in 16 .. 231
             /\ \E R \in 0 .. 5, G \in 0 .. 5, B \in 0 .. 5 :
                  /\ Nearest(pixel[1], R)
                  /\ Nearest(pixel[2], G)
                  /\ Nearest(pixel[3], B)
                  /\ color_idx = 16 + 36 * R + 6 * G + B

\* A non-gray pixel has been given the top of the cube.
C14_Witness ==
    /\ CellDone /\ ColorMode
    /\ pixel = <<255, 255, 230>> /\ color_idx = 231

\* C15: get_color_pair is idempotent and injective: a call for a key that is
\* in the cache returns the handle the key was first given and allocates
\* nothing, no key ever changes its handle, and two different keys never
\* have the same handle.
C15_PairIdempotentInjective ==
    [][ /\ \A e \in COLOR_PAIR_CACHE : e \in COLOR_PAIR_CACHE'
        /\ \A e \in COLOR_PAIR_CACHE :
             (e.fg = pair_call'.fg /\ e.bg = pair_call'.bg) =>
                /\ pair_call'.id = e.id
                /\ COLOR_PAIR_CACHE' = COLOR_PAIR_CACHE
                /\ NEXT_COLOR_PAIR_ID' = NEXT_COLOR_PAIR_ID
        /\ \E e \in COLOR_PAIR_CACHE' :
             e = [fg |-> pair_call'.fg, bg |-> pair_call'.bg,
                  id |-> pair_call'.id]
        /\ \A e1, e2 \in COLOR_PAIR_CACHE' :
             (e1.id = e2.id) <=> (e1.fg = e2.fg /\ e1.bg = e2.bg) ]_vars

\* Several pairs are cached (two of them with the same foreground) and the
\* last call was for a key already cached: it returned an older handle than
\* the newest.
C15_Witness ==
    /\ Cardinality(COLOR_PAIR_CACHE) >= 3
    /\ \E e1, e2 \in COLOR_PAIR_CACHE : e1.fg = e2.fg /\ e1.bg # e2.bg
    /\ pair_call.id < NEXT_COLOR_PAIR_ID - 1

\* The luminance of an RGB pixel taken as the mean of its channels.
MeanLuminance(p) == (p[1] + p[2] + p[3]) \div 3

\* C18 (as stated): in colour mode the cell's character is the one chars_gray
\* has for the pixel's luminance bucket, as in grayscale mode, whatever the
\* paint handle.
C18_ColorCharByLuminance ==
    (CellDone /\ ColorMode) =>
        cell.char = CharsGrayAt(CharIdx(MeanLuminance(pixel)))

\* C18 (amended): in colour mode the cell's character is the full block for
\* every pixel, whatever its luminance; the pixel decides only the paint
\* handle, which is the colour pair of xterm_256_index(r, g, b) on itself.
C18_ColorCellIsBlock ==
    (CellDone /\ ColorMode) =>
        /\ cell.char = Block
        /\ \A i \in DOMAIN chars_gray : chars_gray[i] # cell.char
        /\ color_idx = xterm_256_index(pixel[1], pixel[2], pixel[3])
        /\ [fg |-> color_idx, bg |-> color_idx, id |-> cell.pair]
              \in COLOR_PAIR_CACHE

\* A black pixel (darkest bucket) has become a block in colour mode.
C18_Witness ==
    /\ CellDone /\ ColorMode
    /\ pixel = <<0, 0, 0>> /\ cell.char = Block /\ cell.pair = 1

----------------------------------------------------------------------------
\* The decoder in in-memory precompute mode.

InMemory == Precompute /\ ~UseCachedFrames /\ ~WriteFrames

\* The positions of main after the setup of a precompute mode, up to the
\* end of playback.
AfterSetup == {"get_player", "press_key", "stop", "epilogue"} \cup InLoop

\* C16: in in-memory precompute mode the decoder is released when the setup
\* ends, nothing opens, seeks, reads or grabs a decoder from then to the end
\* of playback, and every frame drawn is the entry of ascii_frames at
\* frame_idx.
C16_NoDecoderInPlayback ==
    [][ (InMemory /\ pc \in AfterSetup) =>
          /\ loader_cap = "released" /\ cap = "unbound"
          /\ decoder_ops' = decoder_ops
          /\ loader_cap' = loader_cap /\ cap' = cap /\ load_pos' = load_pos
          /\ ascii_frames' = ascii_frames
          /\ rendered' # rendered =>
               /\ frame_idx < Len(ascii_frames)
               /\ rendered' = Append(rendered,
                                     [idx |-> frame_idx,
                                      src |-> ascii_frames[frame_idx + 1]]) ]_vars

\* An in-memory session has played three frames to the end of its loop with
\* the loader's decoder released.
C16_Witness ==
    /\ InMemory /\ pc = "stop"
    /\ Len(rendered) = 3 /\ Len(ascii_frames) = 3
    /\ loader_cap = "released" /\ decoder_ops > 0

----------------------------------------------------------------------------
\* Sessions in other surroundings: terminals and videos of several sizes,
\* and caches made in another terminal, of another file, or of a video of
\* another rate.

TermSizes == {<<24, 80>>, <<40, 120>>, <<1, 1>>}
ImageSizes == {<<1080, 1920>>, <<4, 4>>, <<1, 1>>}

Surroundings ==
    [term : TermSizes, src : ImageSizes, cacheTerm : TermSizes,
     cacheInput : {<<"movie.mp4">>, <<"other.mp4">>}, cacheRateOff : {0, 15},
     yt : {FALSE}, cacheThere : {TRUE}, rateFraction : {0}]

\* Only -c meets what an earlier run left.
SameCache(w) ==
    /\ w.cacheTerm = w.term
    /\ w.cacheInput = Usual.cacheInput
    /\ w.cacheRateOff = Usual.cacheRateOff

VariedSessions ==
    { s \in SessionsOf({10}, 0 .. 2, {None, <<4>>}, {FALSE}, {"free"}) :
        WellFormed(s) }

VariedInit ==
    \E s \in VariedSessions, w \in Surroundings :
        /\ s.mode # "cached" => SameCache(w)
        /\ Start(s, w)

VariedSpec == VariedInit /\ [][Next]_vars

\* The ways a session is launched: from a local file or with -y, and (for
\* -c) with or without resized/ and its metadata.txt.
Launches ==
    { [Usual EXCEPT !.yt = y, !.cacheThere = c] : y, c \in BOOLEAN }

LaunchInit == \E s \in VariedSessions, w \in Launches : Start(s, w)

LaunchSpec == LaunchInit /\ [][Next]_vars

\* Sessions on videos whose reported rate is not a whole number (29.97, 1.5,
\* 0.5) or is zero. Video_FPS counts whole frames per second, so these
\* sessions are those of the two setups that truncate the rate; live and -c
\* sessions have whole rates.
RateFractions == {0, 50, 97}

RateSessions ==
    { s \in SessionsOf({0, 1, 29}, 0 .. 2, {None, <<10>>}, {FALSE}, {"free"}) :
        WellFormed(s) }

RateInit ==
    \E s \in RateSessions, f \in RateFractions :
        /\ s.mode \in {"live", "cached"} => f = 0
        /\ Start(s, [Usual EXCEPT !.rateFraction = f])

RateSpec == RateInit /\ [][Next]_vars

----------------------------------------------------------------------------
\* The size of the frames drawn.

\* C17: every glyph frame handed to the renderer, in every frame-supply
\* mode, has exactly the rows and columns derived from the size of this
\* session's terminal, whatever the size of the source image.
C17_DrawnAtTerminalSize ==
    Len(rendered) > 0 => drawn_size = TargetSize(term_size)

\* What does hold: a frame transcoded in this session (live, in-memory,
\* -write) has the size derived from this session's terminal, and a frame of
\* a reused cache has the size of the images in resized/.
C17_FreshFramesAtTerminalSize ==
    Len(rendered) > 0 =>
        drawn_size = IF UseCachedFrames THEN disk_size
                     ELSE TargetSize(term_size)

----------------------------------------------------------------------------
\* A reused cache whose metadata does not match the request.

\* The record in resized/metadata.txt differs from the current request in
\* the input, the source rate, the requested display rate or the frame
\* count.
Mismatch ==
    \/ metadata.InputFile # InputName
    \/ metadata.OriginalFPS # srcFPS
    \/ metadata.UsedUserFPS # (IF Truthy(User_FPS) THEN User_FPS ELSE None)
    \/ metadata.ResizedFrames # srcFrames

\* C20: with -c, a mismatch between the stored metadata and the current
\* request only warns: the session meets no hard failure and, unless the
\* user interrupts it, plays to its end and exits normally.
C20_MismatchOnlyWarns ==
    (UseCachedFrames /\ Mismatch) =>
        /\ pc # "except"
        /\ pc = "exited" => exit_code = 0

\* What does hold: check_cached_frames returns normally whatever the
\* metadata says, having warned of another input file and of another
\* requested rate (when both runs asked for one), and of nothing else.
C20_CheckReturnsNormally ==
    (UseCachedFrames /\ pc \in AfterSetup) =>
        /\ ("InputFile" \in warnings) <=> (metadata.InputFile # InputName)
        /\ ("UsedUserFPS" \in warnings) <=>
              (/\ metadata.UsedUserFPS # None /\ Truthy(User_FPS)
               /\ metadata.UsedUserFPS # User_FPS)

----------------------------------------------------------------------------
\* main before its try block (lines 187-203) and parse_args (103-171).

\* Longest argument list tried.
MaxArgs == 3

\* The arguments tried: every flag, a file name (or link), and a number.
Tokens ==
    {"-h", "-help", "-y", "-c", "-write", "-nocompute", "-sub", "-f",
     "-noskip", "-debug", "-color", "movie.mp4", "10"}

\* arg.startswith('-')
StartsWithDash(arg) == arg \notin {"movie.mp4", "10"}

\* float(arg): <<v>>, or <<>> for a ValueError.
Float(arg) == IF arg = "10" THEN <<10>> ELSE <<>>

RECURSIVE ListsUpTo(_)
ListsUpTo(n) ==
    IF n = 0 THEN {<<>>}
    ELSE LET shorter == ListsUpTo(n - 1)
         IN  shorter \cup { Append(l, t) : l \in { m \in shorter : Len(m) = n - 1 },
                                           t \in Tokens }

\* The process at the top of main with args = sys.argv[1:] and the module
\* globals at their defaults (lines 24-36).
ArgInit ==
    /\ rest \in ListsUpTo(MaxArgs)
    /\ printed = "none"
    /\ YT = FALSE
    /\ local_file = None
    /\ youtube_link = None
    /\ Subtitles = FALSE
    /\ DebugFPS = FALSE
    /\ ColorMode = FALSE
    /\ FreshColors
    /\ stdscr = "none"
    /\ curses_mode = "off"
    /\ cache_there = TRUE
    /\ cap_releases = 0
    /\ unbound_release = FALSE
    /\ start_time = 0
    /\ srcFPSFraction = 0
    /\ term_size = Usual.term
    /\ src_size = Usual.src
    /\ loader_cap = "none"
    /\ decoder_ops = 0
    /\ frame_size = <<0, 0>>
    /\ disk_size = <<0, 0>>
    /\ metadata = NoMetadata
    /\ warnings = {}
    /\ drawn_size = <<0, 0>>
    /\ iter_slept = FALSE
    /\ Precompute = TRUE
    /\ UseCachedFrames = FALSE
    /\ WriteFrames = FALSE
    /\ DisableDynamicSkip = FALSE
    /\ User_FPS = None
    /\ srcFPS = 25
    /\ srcFrames = 1
    /\ decodeFaulty = FALSE
    /\ disk = <<>>
    /\ clockMode = "free"
    /\ clock = 0
    /\ Video_FPS = 0
    /\ total_frames = 0
    /\ ascii_frames = <<>>
    /\ cap = "unbound"
    /\ player = "none"
    /\ strayStop = FALSE
    /\ load_pos = 0
    /\ skip_factor = 0
    /\ frame_idx = 0
    /\ now = 0
    /\ sleep_arg = 0
    /\ pc = "main"
    /\ exit_code = -1
    /\ rendered = <<>>
    /\ sleeps = 0
    /\ skips = 0
    /\ iters = 0

\* The variables main leaves alone before its try block.
NotArgs ==
    <<env, disk, clock, media, cap, player, strayStop, load_pos, skip_factor,
      frame_idx, now, sleep_arg, hist, gfx, term_size, src_size, supply,
      shown, life>>

\* sys.exit(code) after print_help() or an error message.
Exit(what, code) ==
    /\ printed' = what
    /\ exit_code' = code
    /\ pc' = "exited"

\* Lines 189-193: no arguments at all prints the help and exits 0.
MainStart ==
    /\ pc = "main"
    /\ IF rest = <<>>
       THEN Exit("help", 0)
       ELSE pc' = "parse" /\ UNCHANGED <<printed, exit_code>>
    /\ UNCHANGED <<flags, rest, YT, local_file, youtube_link, Subtitles,
                   DebugFPS, ColorMode, stdscr,
                   curses_mode>>
    /\ UNCHANGED NotArgs

\* One pass of `while idx < len(args)` (lines 114-164); rest is args[idx:].
ParseArg ==
    /\ pc = "parse" /\ rest # <<>>
    /\ LET arg == Head(rest)
           more == Tail(rest)
           Go(left) == /\ rest' = left
                       /\ UNCHANGED <<pc, printed, exit_code>>
       IN  CASE arg \in {"-h", "-help"} ->
                  /\ Exit("help", 0)
                  /\ UNCHANGED <<flags, rest, YT, local_file, youtube_link,
                                 Subtitles, DebugFPS, ColorMode>>
             [] arg = "-y" ->
                  /\ YT' = TRUE
                  /\ IF more # <<>>
                     THEN youtube_link' = <<Head(more)>> /\ Go(Tail(more))
                     ELSE /\ Exit("error", 1)
                          /\ rest' = more
                          /\ UNCHANGED youtube_link
                  /\ UNCHANGED <<flags, local_file, Subtitles, DebugFPS,
                                 ColorMode>>
             [] arg = "-c" ->
                  /\ UseCachedFrames' = TRUE
                  /\ Go(more)
                  /\ UNCHANGED <<Precompute, WriteFrames, DisableDynamicSkip,
                                 User_FPS, YT, local_file, youtube_link,
                                 Subtitles, DebugFPS, ColorMode>>
             [] arg = "-write" ->
                  /\ WriteFrames' = TRUE
                  /\ Go(more)
                  /\ UNCHANGED <<Precompute, UseCachedFrames,
                                 DisableDynamicSkip, User_FPS, YT, local_file,
                                 youtube_link, Subtitles, DebugFPS, ColorMode>>
             [] arg = "-nocompute" ->
                  /\ Precompute' = FALSE
                  /\ Go(more)
                  /\ UNCHANGED <<UseCachedFrames, WriteFrames,
                                 DisableDynamicSkip, User_FPS, YT, local_file,
                                 youtube_link, Subtitles, DebugFPS, ColorMode>>
             [] arg = "-sub" ->
                  /\ Subtitles' = TRUE
                  /\ IF more # <<>> /\ ~StartsWithDash(Head(more))
                     THEN Go(Tail(more))
                     ELSE Go(more)
                  /\ UNCHANGED <<flags, YT, local_file, youtube_link,
                                 DebugFPS, ColorMode>>
             [] arg = "-f" ->
                  /\ IF more = <<>>
                     THEN Go(more) /\ UNCHANGED User_FPS
                     ELSE IF Float(Head(more)) = <<>>
                     THEN /\ Exit("error", 1)
                          /\ rest' = more
                          /\ UNCHANGED User_FPS
                     ELSE /\ User_FPS' = Float(Head(more))
                          /\ Go(Tail(more))
                  /\ UNCHANGED <<Precompute, UseCachedFrames, WriteFrames,
                                 DisableDynamicSkip, YT, local_file,
                                 youtube_link, Subtitles, DebugFPS, ColorMode>>
             [] arg = "-noskip" ->
                  /\ DisableDynamicSkip' = TRUE
                  /\ Go(more)
                  /\ UNCHANGED <<Precompute, UseCachedFrames, WriteFrames,
                                 User_FPS, YT, local_file, youtube_link,
                                 Subtitles, DebugFPS, ColorMode>>
             [] arg = "-debug" ->
                  /\ DebugFPS' = TRUE
                  /\ Go(more)
                  /\ UNCHANGED <<flags, YT, local_file, youtube_link,
                                 Subtitles, ColorMode>>
             [] arg = "-color" ->
                  /\ ColorMode' = TRUE
                  /\ Go(more)
                  /\ UNCHANGED <<flags, YT, local_file, youtube_link,
                                 Subtitles, DebugFPS>>
             [] OTHER ->
                  /\ local_file' = <<arg>>
                  /\ Go(more)
                  /\ UNCHANGED <<flags, YT, youtube_link, Subtitles,
                                 DebugFPS, ColorMode>>
    /\ UNCHANGED <<stdscr, curses_mode>>
    /\ UNCHANGED NotArgs

\* Lines 165-171: the checks of parse_args after its loop.
ParseArgsEnd ==
    /\ pc = "parse" /\ rest = <<>>
    /\ IF ~Precompute /\ (UseCachedFrames \/ WriteFrames)
       THEN Exit("error", 1)
       ELSE IF UseCachedFrames /\ ~(YT \/ local_file # None)
       THEN Exit("error", 1)
       ELSE pc' = "checks" /\ UNCHANGED <<printed, exit_code>>
    /\ UNCHANGED <<flags, rest, YT, local_file, youtube_link, Subtitles,
                   DebugFPS, ColorMode, stdscr,
                   curses_mode>>
    /\ UNCHANGED NotArgs

\* The checks of main without the one of -write against -c.
MainChecksWithoutWriteAndCache ==
    /\ pc = "checks"
    /\ IF ~UseCachedFrames /\ ~YT /\ local_file = None
       THEN Exit("error", 1)
       ELSE pc' = "curses" /\ UNCHANGED <<printed, exit_code>>
    /\ UNCHANGED <<flags, rest, YT, local_file, youtube_link, Subtitles,
                   DebugFPS, ColorMode, stdscr,
                   curses_mode>>
    /\ UNCHANGED NotArgs

\* Lines 194-200: the error checks of main.
MainChecks ==
    /\ pc = "checks"
    /\ IF WriteFrames /\ UseCachedFrames
       THEN Exit("error", 1)
       ELSE IF ~UseCachedFrames /\ ~YT /\ local_file = None
       THEN Exit("error", 1)
       ELSE pc' = "curses" /\ UNCHANGED <<printed, exit_code>>
    /\ UNCHANGED <<flags, rest, YT, local_file, youtube_link, Subtitles,
                   DebugFPS, ColorMode, stdscr,
                   curses_mode>>
    /\ UNCHANGED NotArgs

\* Lines 201-203: the terminal session is started here unless a YouTube
\* video is to be precomputed (the loader then starts it after the download).
StartCurses ==
    /\ pc = "curses"
    /\ stdscr' = IF ~YT \/ ~Precompute THEN "curses" ELSE stdscr
    /\ curses_mode' = IF ~YT \/ ~Precompute THEN "visual" ELSE curses_mode
    /\ pc' = "setup"
    /\ UNCHANGED <<flags, cli, exit_code>>
    /\ UNCHANGED NotArgs

ArgNext ==
    \/ MainStart
    \/ ParseArg
    \/ ParseArgsEnd
    \/ MainChecks
    \/ StartCurses

ArgSpec == ArgInit /\ [][ArgNext]_vars

----------------------------------------------------------------------------
\* Configuration errors.

\* The flags are contradictory or name no input: -nocompute with -write or
\* -c, -write with -c, -y without a link, neither a file nor a link.
ConfigError ==
    \/ ~Precompute /\ (WriteFrames \/ UseCachedFrames)
    \/ WriteFrames /\ UseCachedFrames
    \/ YT /\ youtube_link = None
    \/ local_file = None /\ youtube_link = None

\* No terminal session, no decoder, no download (it would open a decoder),
\* no audio player.
NoResource ==
    /\ stdscr = "none"
    /\ cap = "unbound" /\ loader_cap = "none" /\ decoder_ops = 0
    /\ player = "none"

\* main is through with the arguments: it has exited or gone on to its try
\* block.
ArgsSettled == pc \in {"exited", "curses", "setup"}

\* C19 (as stated): every argument list that is a configuration error makes
\* the program exit with a non-zero status before any resource is acquired.
C19_ConfigErrorExitsNonZero ==
    (ArgsSettled /\ ConfigError) =>
        /\ pc = "exited"
        /\ exit_code # 0
        /\ NoResource

\* C19 (amended): every argument list that is a configuration error, is not
\* empty and has no -h / -help where parse_args meets it, makes the program
\* print an error and exit with status 1 before any resource is acquired;
\* when the help is printed the exit status is 0, also with no resource
\* acquired.
C19_ConfigErrorExitsOne ==
    /\ (ArgsSettled /\ ConfigError /\ printed # "help") =>
          /\ pc = "exited"
          /\ printed = "error" /\ exit_code = 1
          /\ NoResource
    /\ printed = "help" => (pc = "exited" /\ exit_code = 0 /\ NoResource)

\* -write and -c given with a file: main's own check has ended the process
\* with status 1.
C19_Witness ==
    /\ pc = "exited" /\ exit_code = 1 /\ printed = "error"
    /\ WriteFrames /\ UseCachedFrames /\ Precompute /\ local_file # None
    /\ NoResource

----------------------------------------------------------------------------
\* The end of the process: the terminal and the live decoder.

\* A terminal session has been started (curses.initscr and start_curses).
TerminalStarted == curses_mode # "off"

\* C21: on every path by which the process exits after the terminal session
\* has been started (normal completion in every flag combination, user
\* interrupt, unexpected exception, explicit exit from a setup step),
\* terminal restoration has been attempted before the process exits.
C21_RestoredOnEveryExit ==
    (pc = "exited" /\ TerminalStarted) => curses_mode = "restored"

----------------------------------------------------------------------------
\* The indices the scheduler fetches.

\* C22: every frame index the scheduler fetches satisfies
\* 0 <= index < number of frames held by the active frame collection; in the
\* precomputed modes the total frame count passed to the scheduler never
\* exceeds the length of the precomputed frame list.
C22_FetchInRange ==
    /\ (Precompute /\ pc \in AfterSetup) => total_frames <= Len(ascii_frames)
    /\ pc = "fetch" =>
         /\ 0 <= frame_idx
         /\ frame_idx < IF Precompute THEN Len(ascii_frames) ELSE total_frames

\* C23: in live mode the decoder opened for the session is released exactly
\* once on every exit path (normal completion, user interrupt, unexpected
\* failure), and the cleanup never attempts to release a decoder that was
\* not yet opened.
C23_LiveDecoderReleasedOnce ==
    (~Precompute /\ pc = "exited") =>
        /\ cap # "unbound" => (cap = "released" /\ cap_releases = 1)
        /\ ~unbound_release

----------------------------------------------------------------------------
\* What the playback loop leaves alone.

\* One step of an iteration of the playback loop: the loop test, the
\* adaptive skip, the wait, the fetch and render (or decode-failure skip).
LoopStep == pc \in InLoop /\ pc' \in InLoop \cup {"stop"}

\* C24: skip_factor and start_time are fixed before the first iteration and
\* left unchanged by every iteration of the playback loop (render, wait,
\* adaptive skip, decode-failure skip); an adaptive skip advances frame_idx
\* by that same stride, however large the lag.
C24_StrideAndStartFixed ==
    [][ /\ (pc = "press_key" /\ pc' = "loop") =>
              /\ skip_factor' = SkipFactor(Video_FPS, User_FPS)
              /\ start_time' \in StartInstants
        /\ LoopStep =>
              /\ skip_factor' = skip_factor
              /\ start_time' = start_time
              /\ skips' # skips => frame_idx' = frame_idx + skip_factor
              /\ frame_idx' \in {frame_idx, frame_idx + skip_factor} ]_vars

\* An adaptive skip is taken while the session is three or more strides
\* late, on a session that began at a non-zero instant, after a frame was
\* drawn and a wait was made.
C24_Witness ==
    /\ pc = "loop" /\ skips > 0 /\ sleeps > 0 /\ Len(rendered) > 0
    /\ start_time # 0
    /\ now * Video_FPS >= (frame_idx + 2 * skip_factor) * 1000

----------------------------------------------------------------------------
\* The size of the colour-pair cache.

\* The keys the program can ask a pair for: (c, c) for a colour index c of
\* the cube or the gray ramp (process_frame), and green on colour 0 (the
\* debug overlay).
PairKeys ==
    { <<c, c>> : c \in 16 .. 255 } \cup { <<xterm_256_index(0, 255, 0), 0>> }

KeysOf(cache) == { <<e.fg, e.bg>> : e \in cache }

\* C25: after any sequence of frame transcodes in colour mode and of debug
\* overlay draws, the colour-pair cache has only grown (no key removed or
\* remapped), holds at most 256 distinct keys, and the next handle id is the
\* number of cached keys plus one, so no handle id made exceeds 256.
C25_CacheGrowsBounded ==
    [][ /\ COLOR_PAIR_CACHE \subseteq COLOR_PAIR_CACHE'
        /\ Cardinality(KeysOf(COLOR_PAIR_CACHE'))
             = Cardinality(COLOR_PAIR_CACHE')
        /\ KeysOf(COLOR_PAIR_CACHE') \subseteq PairKeys
        /\ Cardinality(PairKeys) <= 256
        /\ Cardinality(COLOR_PAIR_CACHE') <= 256
        /\ NEXT_COLOR_PAIR_ID' = Cardinality(COLOR_PAIR_CACHE') + 1
        /\ \A e \in COLOR_PAIR_CACHE' : e.id \in 1 .. 256 ]_vars

\* Pairs of the gray ramp, of the cube and of the debug overlay are cached,
\* and the last call was for a key already cached.
C25_Witness ==
    /\ Cardinality(COLOR_PAIR_CACHE) >= 4
    /\ InCache(xterm_256_index(0, 255, 0), 0)
    /\ \E e \in COLOR_PAIR_CACHE : e.fg >= 232
    /\ \E e \in COLOR_PAIR_CACHE : e.fg < 232 /\ e.bg = e.fg
    /\ pair_call.id < NEXT_COLOR_PAIR_ID - 1

----------------------------------------------------------------------------
\* The rate the scheduler divides by.

\* C26: whenever the source has at least one frame and the decoder reports a
\* positive frame rate, the rate the scheduler divides by
\* (t_ideal = frame_idx / Video_FPS) is strictly positive and equal to the
\* reported rate in every frame-supply mode.
C26_SchedulerRateIsReported ==
    (srcFrames >= 1 /\ ReportedRate > 0 /\ pc \in {"press_key"} \cup InLoop) =>
        /\ Video_FPS > 0
        /\ Video_FPS * 100 = ReportedRate

----------------------------------------------------------------------------
\* Playback with -noskip.

\* The indices 0, sf, 2 sf, ... below n.
Strided(n, sf) == [k \in 1 .. CeilDiv(n, sf) |-> (k - 1) * sf]

IsPrefix(a, b) == Len(a) <= Len(b) /\ a = SubSeq(b, 1, Len(a))

\* C27: with -noskip in a precomputed mode, every index k * skip_factor with
\* 0 <= k * skip_factor < total_frames is rendered exactly once, in order,
\* however late the clock runs: the indices rendered are always the first
\* ones of 0, skip_factor, 2 skip_factor, ..., and the playback does not end
\* (unless the user interrupts it) before all of them are rendered.
C27_NoskipRendersEveryStride ==
    (Precompute /\ DisableDynamicSkip /\ pc \in InLoop \cup {"stop", "except"})
      => /\ IsPrefix(RenderedIdx, Strided(total_frames, skip_factor))
         /\ pc \in {"stop", "except"} =>
              RenderedIdx = Strided(total_frames, skip_factor)

----------------------------------------------------------------------------
\* The single-pass in-memory setup.

\* C28: the single-pass in-memory setup with decimation stride s (1 unless a
\* positive requested rate below the source rate is given) keeps exactly the
\* source frames at positions 0, s, 2s, ... in order: while it runs the
\* frames kept are the first of these, and when it ends the number of frames
\* returned is ceil(N / s) for a decoder yielding N frames, and the decoder
\* is released.
C28_InMemoryKeepsEveryStride ==
    LET s == LoadStride(Video_FPS, User_FPS)
        positive_lower == Truthy(User_FPS) /\ User_FPS[1] > 0
                             /\ User_FPS[1] < Video_FPS
    IN  /\ (InMemory /\ pc = "read_loop") =>
              /\ IsPrefix(ascii_frames, Strided(srcFrames, s))
              /\ loader_cap = "open"
        /\ (InMemory /\ pc \in AfterSetup) =>
              /\ s >= 1
              /\ ~positive_lower => s = 1
              /\ ascii_frames = Strided(srcFrames, s)
              /\ Len(ascii_frames) = CeilDiv(srcFrames, s)
              /\ total_frames = Len(ascii_frames)
              /\ loader_cap = "released"

\* An in-memory setup has ended having kept two frames or more with a stride
\* above 1 that does not divide the number of source frames.
C28_Witness ==
    /\ InMemory /\ pc = "get_player"
    /\ LoadStride(Video_FPS, User_FPS) > 1
    /\ Len(ascii_frames) >= 2
    /\ srcFrames % LoadStride(Video_FPS, User_FPS) # 0

====
